---- MODULE Spec2Model ----
(***************************************************************************)
(* Model of OpenSprinkler.py: the OpenSprinklerController built from one   *)
(* JSON snapshot ("ja" query), its property registry, and the Station and  *)
(* Program objects it decodes.                                             *)
(*                                                                         *)
(* Python values are tagged records [t |-> type, v |-> payload] so that    *)
(* values of different Python types can be compared and so that truth      *)
(* value testing (bool(x)) is a real conversion.                           *)
(***************************************************************************)
EXTENDS Integers, Sequences, FiniteSets, TLC

VARIABLES
    ctrls,                 \* the OpenSprinklerController instances built so far
    controller_stations,   \* the class attribute OpenSprinklerController.controller_stations
    controller_programs,   \* the class attribute OpenSprinklerController.controller_programs
    program,               \* an OpenSprinklerProgram instance built on its own
    ret                    \* what the last call returned or raised

vars == <<ctrls, controller_stations, controller_programs, program, ret>>

(***************************************************************************)
(* Bounds of the model.                                                    *)
(***************************************************************************)
\* number of controllers constructed in one run
MaxCtrls == 2
\* the largest station count of a snapshot: stations 8 and above lie
\* outside the single mask byte
MaxStations == 9
\* the longest list of start times handed to a program
MaxTimes == 2

(***************************************************************************)
(* Python values.                                                          *)
(***************************************************************************)
I(n) == [t |-> "int", v |-> n]
S(s) == [t |-> "str", v |-> s]
B(b) == [t |-> "bool", v |-> b]
L(s) == [t |-> "list", v |-> s]
EmptyDict == [t |-> "dict", v |-> <<>>]
None == [t |-> "none", v |-> 0]

\* (variant: enabled only for the integer 1)
Truthy_IsOne(x) == x = I(1)

\* bool(x): the truth value test of `True if x else False`
Truthy(x) ==
    CASE x.t = "int"  -> x.v # 0
      [] x.t = "str"  -> x.v # ""
      [] x.t = "bool" -> x.v
      [] x.t = "list" -> Len(x.v) > 0
      [] x.t = "dict" -> Len(x.v) > 0
      [] OTHER        -> FALSE

\* a & b on non-negative integers
RECURSIVE BitAnd(_, _)
BitAnd(a, b) ==
    IF a = 0 \/ b = 0 THEN 0
    ELSE (a % 2) * (b % 2) + 2 * BitAnd(a \div 2, b \div 2)

\* the outcome of a call: a returned value or a raised exception
Return(x) == [exc |-> "none", val |-> x]
Raise(e) == [exc |-> e, val |-> None]

(***************************************************************************)
(* The property table assigned to self.controller_properties.              *)
(***************************************************************************)
P(n, s, a, d) == [name |-> n, source |-> s, abbrev |-> a, val |-> d]
D(n, f, d) == [name |-> n, source |-> "derived", formula |-> f, val |-> d]

controller_properties ==
    << P("device_time", "settings", "devt", I(0)),
       P("num_boards", "settings", "nbrd", I(0)),
       P("enabled", "settings", "en", I(0)),
       P("rain_delay", "settings", "rd", I(0)),
       P("rain_sensor_status", "settings", "rs", I(0)),
       P("rain_delay_stop_time", "settings", "rdst", I(0)),
       P("location", "settings", "loc", S("")),
       P("wunderground_api_key", "settings", "wtkey", S("")),
       P("sunrise", "settings", "sunrise", I(0)),
       P("sunset", "settings", "sunset", I(0)),
       P("external_ip_address", "settings", "eip", I(0)),
       P("last_weather_call", "settings", "lwc", I(0)),
       P("last_successful_weather_call", "settings", "lswc", I(0)),
       P("last_run_record", "settings", "lrun", I(0)),
       P("weather_options", "settings", "wto", EmptyDict),
       P("firmware_version", "options", "fwv", I(0)),
       P("firmware_minor_version", "options", "fwm", I(0)),
       P("time_zone", "options", "tz", I(0)),
       P("ntp_synch_flag", "options", "ntp", I(0)),
       P("use_dhcp_flag", "options", "dhcp", I(0)),
       P("ip1", "options", "ip1", I(0)),
       P("ip2", "options", "ip2", I(0)),
       P("ip3", "options", "ip3", I(0)),
       P("ip4", "options", "ip4", I(0)),
       P("gw1", "options", "gw1", I(0)),
       P("gw2", "options", "gw2", I(0)),
       P("gw3", "options", "gw3", I(0)),
       P("gw4", "options", "gw4", I(0)),
       P("ntp1", "options", "ntp1", I(0)),
       P("ntp2", "options", "ntp2", I(0)),
       P("ntp3", "options", "ntp3", I(0)),
       P("ntp4", "options", "ntp4", I(0)),
       P("hp0", "options", "hp0", I(0)),
       P("hp1", "options", "hp1", I(0)),
       P("hardware_version", "options", "hwv", I(0)),
       P("hardware_type", "options", "hwt", I(0)),
       P("num_expansion_boards", "options", "ext", I(0)),
       P("station_delay_time", "options", "sdt", I(0)),
       P("master_station_1", "options", "mas", I(0)),
       P("master_station_2", "options", "mas2", I(0)),
       P("master_station_1_on_delay", "options", "mton", I(0)),
       P("master_station_2_on_delay", "options", "mton2", I(0)),
       P("master_station_1_off_delay", "options", "mtof", I(0)),
       P("master_station_2_off_delay", "options", "mtof2", I(0)),
       P("use_rain_sensor", "options", "urs", I(0)),
       P("rain_sensor_type", "options", "rso", I(0)),
       P("water_level", "options", "wl", I(0)),
       P("operation_enabled", "options", "den", I(0)),
       P("ignore_password", "options", "ipas", I(0)),
       P("device_id", "options", "devid", I(0)),
       P("lcd_contrast", "options", "con", I(0)),
       P("lcd_backlight", "options", "lit", I(0)),
       P("lcd_dimming", "options", "dim", I(0)),
       P("boost_time", "options", "bst", I(0)),
       P("weather_adjustment_method", "options", "uwt", I(0)),
       P("enable_logging", "options", "lg", I(0)),
       P("fpr0", "options", "fpr0", I(0)),
       P("fpr1", "options", "fpr1", I(0)),
       P("remote_extension_mode", "options", "re", I(0)),
       P("detected_extension_boards", "options", "dexp", I(0)),
       P("max_extension_boards", "options", "mexp", I(0)),
       P("station_names", "stations", "snames", L(<<>>)),
       P("station_status", "status", "sn", L(<<>>)),
       P("num_stations", "status", "nstations", I(0)),
       P("num_programs", "programs", "nprogs", I(0)),
       P("max_programs", "programs", "mnp", I(0)),
       P("max_start_times", "programs", "mnst", I(0)),
       P("program_name_size", "programs", "pnsize", I(0)),
       D("ntp_ipv4_address", "", S("")),
       D("dhcp_ipv4_address", "", S("")),
       D("gw_ipv4_address", "", S("")),
       D("port_number", "hp1 << 8 + hp0", I(0)),
       D("flow_pulse_rate", "fpr1 << 8 + fpr0", S("")) >>

Sections == {"settings", "options", "stations", "status", "programs"}

(***************************************************************************)
(* Snapshots: the JSON document myDict.  A snapshot is described by a      *)
(* small record p of the fields the decoders read; Snapshot(p) is the      *)
(* document itself, a dict of dicts.                                       *)
(***************************************************************************)
\* position of the entry for (section, abbrev) in the table
RegIndex(s, a) ==
    CHOOSE i \in 1..Len(controller_properties) :
        /\ controller_properties[i].source = s
        /\ controller_properties[i].abbrev = a

RegAbbrevs(s) ==
    {controller_properties[i].abbrev :
        i \in {j \in 1..Len(controller_properties) : controller_properties[j].source = s}}

\* the table positions, by section and abbreviation
RegPos == [s \in Sections |-> [a \in RegAbbrevs(s) |-> RegIndex(s, a)]]

\* keys a section carries besides the ones the table names
ExtraKeys(s) ==
    CASE s = "stations" -> {"ignore_rain", "stn_seq", "stn_dis", "stn_spe"}
      [] s = "programs" -> {"pd"}
      [] OTHER          -> {}

RawValue(p, s, a) ==
    CASE s = "settings" /\ a = "en"        -> p.en
      [] s = "stations" /\ a = "snames"    -> L(p.snames)
      [] s = "stations" /\ a = "ignore_rain" -> L(p.ignore_rain)
      [] s = "stations" /\ a = "stn_seq"   -> L(p.stn_seq)
      [] s = "stations" /\ a = "stn_dis"   -> L(p.stn_dis)
      [] s = "stations" /\ a = "stn_spe"   -> L(p.stn_spe)
      [] s = "status" /\ a = "sn"          -> L(p.sn)
      [] s = "status" /\ a = "nstations"   -> I(p.nstations)
      [] s = "programs" /\ a = "nprogs"    -> I(p.nprogs)
      [] s = "programs" /\ a = "pd"        -> L(p.pd)
      [] s = "settings" /\ a = "loc"       -> S("loc")
      [] OTHER                             -> I(p.fill + RegPos[s][a])

Snapshot(p) ==
    [s \in Sections \ p.nosec |->
        [a \in {k \in RegAbbrevs(s) \cup ExtraKeys(s) : <<s, k>> \notin p.drop} |->
            RawValue(p, s, a)]]

\* myDict[s][a]
Lookup(myDict, s, a) ==
    IF s \in DOMAIN myDict /\ a \in DOMAIN myDict[s]
    THEN Return(myDict[s][a])
    ELSE Raise("KeyError")

\* x[i] for a 0-based index i into a list
Item(x, i) ==
    IF x.t # "list" THEN Raise("TypeError")
    ELSE IF i + 1 > Len(x.v) THEN Raise("IndexError")
    ELSE Return(x.v[i + 1])

\* myDict[s][a][i]
LookupItem(myDict, s, a, i) ==
    LET r == Lookup(myDict, s, a)
    IN  IF r.exc # "none" THEN r ELSE Item(r.val, i)

(***************************************************************************)
(* OpenSprinklerStation                                                    *)
(***************************************************************************)
OpenSprinklerStation(sname, sstatus, sid, sirf, sseqf, sdisf, sspef) ==
    [station_name       |-> sname,
     status             |-> sstatus,
     station_id         |-> sid,
     ignore_rain_flag   |-> sirf,
     is_sequential_flag |-> sseqf,
     is_disabled_flag   |-> sdisf,
     is_special_flag    |-> sspef]

(***************************************************************************)
(* OpenSprinklerProgram                                                    *)
(***************************************************************************)
week == <<"Monday", "Tuesday", "Wednesday", "Thursday", "Friday", "Saturday", "Sunday">>

\* the class attributes an instance reads until it assigns its own
ProgramDefaults ==
    [program_name                   |-> "",
     program_enabled                |-> FALSE,
     program_use_weather_adjustment |-> FALSE,
     program_restriction            |-> "",
     program_schedule_type          |-> "",
     program_start_time_type        |-> "",
     program_schedule               |-> <<>>,
     program_fixed_start_times      |-> <<>>,
     program_repeating_start_times  |-> <<>>,
     program_zone_durations         |-> <<>>]

\* (variant: the bit of day k is taken one position too high)
setWeekdaySchedule_OffByOne(self, d0) ==
    [self EXCEPT !.program_schedule =
        [k \in 1..Len(week) |->
            [day |-> week[k], scheduled |-> BitAnd(d0, 2^k) # 0]]]

setWeekdaySchedule(self, d0) ==
    [self EXCEPT !.program_schedule =
        [k \in 1..Len(week) |->
            [day |-> week[k], scheduled |-> BitAnd(d0, 2^(k - 1)) # 0]]]

setIntervalSchedule(self, d0, d1) ==
    [self EXCEPT !.program_schedule = <<[interval |-> d1, delay |-> d0]>>]

setSchedule(self, pstype, d0, d1) ==
    IF pstype = "Weekday"
    THEN setWeekdaySchedule(self, d0)
    ELSE setIntervalSchedule(self, d1, d0)

\* the loop reads the name sTimes, which is not bound in this method (the
\* parameter is startTimes): NameError once both lists have been reset
setFixedStartTimes(self, startTimes) ==
    [exc  |-> "NameError",
     self |-> [self EXCEPT !.program_fixed_start_times = <<>>,
                           !.program_repeating_start_times = <<>>]]

\* (variant: bit 12 is tested before bit 13)
RepeatingStartTime_SunriseFirst(sTime) ==
    [basis  |-> IF BitAnd(sTime, 4096) # 0 THEN "Sunrise"
                ELSE IF BitAnd(sTime, 8192) # 0 THEN "Sunset"
                ELSE "Midnight",
     sign   |-> IF BitAnd(sTime, 2048) # 0 THEN "plus" ELSE "minus",
     offset |-> BitAnd(sTime, 2047)]

RepeatingStartTime(sTime) ==
    [basis  |-> IF BitAnd(sTime, 8192) # 0 THEN "Sunset"
                ELSE IF BitAnd(sTime, 4096) # 0 THEN "Sunrise"
                ELSE "Midnight",
     sign   |-> IF BitAnd(sTime, 2048) # 0 THEN "plus" ELSE "minus",
     offset |-> BitAnd(sTime, 2047)]

RECURSIVE RepeatingLoop(_)
RepeatingLoop(sTimes) ==
    IF sTimes = <<>> THEN <<>>
    ELSE IF Head(sTimes) > 0
         THEN <<RepeatingStartTime(Head(sTimes))>> \o RepeatingLoop(Tail(sTimes))
         ELSE RepeatingLoop(Tail(sTimes))

setRepeatingStartTimes(self, sTimes) ==
    [exc  |-> "none",
     self |-> [self EXCEPT !.program_fixed_start_times = <<>>,
                           !.program_repeating_start_times = RepeatingLoop(sTimes)]]

setStartTimes(self, psttype, sTimes) ==
    IF psttype = "Fixed"
    THEN setFixedStartTimes(self, sTimes)
    ELSE setRepeatingStartTimes(self, sTimes)

setDurations(self, durations) ==
    [self EXCEPT !.program_zone_durations = durations]

setStartTimeType(self, timetype) ==
    [self EXCEPT !.program_start_time_type = timetype]

\* the list that is not empty wins, whatever the start time type says
getStartTimes(self) ==
    IF Len(self.program_fixed_start_times) > 0
    THEN self.program_fixed_start_times
    ELSE self.program_repeating_start_times

getStartTimeType(self) == self.program_start_time_type

\* (variant: Even is tested before Odd)
DecodeFlags_EvenFirst(self, flags) ==
    [self EXCEPT
        !.program_enabled = BitAnd(flags, 1) # 0,
        !.program_use_weather_adjustment = BitAnd(flags, 2) # 0,
        !.program_restriction =
            IF BitAnd(flags, 8) # 0 THEN "Even"
            ELSE IF BitAnd(flags, 4) # 0 THEN "Odd" ELSE "None",
        !.program_schedule_type =
            IF ~(BitAnd(flags, 16) # 0 \/ BitAnd(flags, 32) # 0)
            THEN "Weekday" ELSE "Interval",
        !.program_start_time_type =
            IF BitAnd(flags, 64) # 0 THEN "Fixed" ELSE "Repeating"]

\* the five setters of __init__ that read the flags
DecodeFlags(self, flags) ==
    [self EXCEPT
        !.program_enabled = BitAnd(flags, 1) # 0,
        !.program_use_weather_adjustment = BitAnd(flags, 2) # 0,
        !.program_restriction =
            IF BitAnd(flags, 4) # 0 THEN "Odd"
            ELSE IF BitAnd(flags, 8) # 0 THEN "Even" ELSE "None",
        !.program_schedule_type =
            IF ~(BitAnd(flags, 16) # 0 \/ BitAnd(flags, 32) # 0)
            THEN "Weekday" ELSE "Interval",
        !.program_start_time_type =
            IF BitAnd(flags, 64) # 0 THEN "Fixed" ELSE "Repeating"]

\* __init__: every step runs inside one try whose handler only logs, so the
\* object exists with whatever was assigned before the first exception; exc
\* is the exception the handler swallowed.  flags is a tagged value: on
\* anything but a number `flags & 1` raises TypeError.
ProgramInit(pname, flags, days0, days1, sTimes, durs) ==
    LET p1 == [ProgramDefaults EXCEPT !.program_name = pname]
    IN  IF flags.t # "int" THEN [exc |-> "TypeError", self |-> p1]
        ELSE LET p6 == DecodeFlags(p1, flags.v)
                 p7 == setSchedule(p6, p6.program_schedule_type, days0, days1)
                 r8 == setStartTimes(p7, p7.program_start_time_type, sTimes)
             IN  IF r8.exc # "none" THEN r8
                 ELSE [exc |-> "none", self |-> setDurations(r8.self, durs)]

OpenSprinklerProgram(pname, flags, days0, days1, sTimes, durs) ==
    ProgramInit(pname, I(flags), days0, days1, sTimes, durs).self

(***************************************************************************)
(* OpenSprinklerController                                                 *)
(***************************************************************************)
\* (variant: the test left out, every entry is looked up)
IsResolvable_Always(prop) == TRUE

\* the `source is not 'derived'` test of the resolution loop: both operands
\* are the same interned literal, so the identity test decides by value
IsResolvable(prop) == prop.source # "derived"

\* (variant: the raw value of 'enabled' is stored as a boolean)
ResolveProp_CoerceEnabled(prop, myDict) ==
    IF IsResolvable(prop)
    THEN IF /\ prop.source \in DOMAIN myDict
            /\ prop.abbrev \in DOMAIN myDict[prop.source]
         THEN [prop EXCEPT !.val =
                  IF prop.name = "enabled"
                  THEN B(Truthy(myDict[prop.source][prop.abbrev]))
                  ELSE myDict[prop.source][prop.abbrev]]
         ELSE prop
    ELSE prop

\* one pass of the resolution loop over the entry prop
ResolveProp(prop, myDict) ==
    IF IsResolvable(prop)
    THEN IF /\ prop.source \in DOMAIN myDict
            /\ prop.abbrev \in DOMAIN myDict[prop.source]
         THEN [prop EXCEPT !.val = myDict[prop.source][prop.abbrev]]
         ELSE prop
    ELSE prop

\* the resolution loop of __init__: the passes are independent of one
\* another.  It runs outside the try block, so an exception here (reading
\* 'abbrev' from an entry that has none) leaves __init__ without a
\* controller.
Resolve(myDict) ==
    LET props == controller_properties
        keyless == {i \in 1..Len(props) :
                       IsResolvable(props[i]) /\ "abbrev" \notin DOMAIN props[i]}
    IN  IF keyless # {}
        THEN [exc |-> "KeyError", props |-> props]
        ELSE [exc |-> "none",
              props |-> [i \in 1..Len(props) |-> ResolveProp(props[i], myDict)]]

\* getProperty: the else branch belongs to the if, so the first entry
\* decides; UnknownPropertyError is not a name of the module (the class is
\* OS_UnknownPropertyError), so the raise statement raises NameError
getProperty(props, var_name) ==
    IF props = <<>> THEN Return(None)
    ELSE LET prop_item == Head(props)
         IN  IF prop_item.name = var_name
             THEN Return(prop_item.val)
             ELSE Raise("NameError")

\* (variant: the listing leaves the derived entries out)
getProperties_SkipDerived(props) ==
    LET keep == {i \in 1..Len(props) : props[i].source # "derived"}
    IN  [i \in 1..Cardinality(keep) |-> [name |-> props[i].name, val |-> props[i].val]]

getProperties(props) ==
    [i \in 1..Len(props) |-> [name |-> props[i].name, val |-> props[i].val]]

\* (variant: a name the table does not hold is added as a new entry)
setProperty_Upsert(props, var_name, var_value) ==
    LET set == [i \in 1..Len(props) |->
                   IF props[i].name = var_name
                   THEN [props[i] EXCEPT !.val = var_value]
                   ELSE props[i]]
    IN  IF \E i \in 1..Len(props) : props[i].name = var_name
        THEN set
        ELSE Append(set, [name |-> var_name, val |-> var_value])

\* every entry carrying the name is assigned; the method returns None
setProperty(props, var_name, var_value) ==
    [i \in 1..Len(props) |->
        IF props[i].name = var_name
        THEN [props[i] EXCEPT !.val = var_value]
        ELSE props[i]]

\* (variant: the bit position wraps around the byte)
FlagBit_Wrap(byte, idx) == I(BitAnd(byte.v, 2^(idx % 8)))

\* ir_byte & 2**idx
FlagBit(byte, idx) == I(BitAnd(byte.v, 2^idx))

\* the station loop: stations appended so far and the exception that ended it
RECURSIVE StationLoop(_, _, _, _, _)
StationLoop(myDict, bytes, num_stations, idx, acc) ==
    IF ~(idx < num_stations) THEN [exc |-> "none", out |-> acc]
    ELSE LET station_name == LookupItem(myDict, "stations", "snames", idx)
             status == LookupItem(myDict, "status", "sn", idx)
         IN  IF station_name.exc # "none" THEN [exc |-> station_name.exc, out |-> acc]
             ELSE IF status.exc # "none" THEN [exc |-> status.exc, out |-> acc]
             ELSE LET this_station ==
                          OpenSprinklerStation(station_name.val, status.val, idx,
                              FlagBit(bytes.ir, idx), FlagBit(bytes.seq, idx),
                              FlagBit(bytes.dis, idx), FlagBit(bytes.spe, idx))
                  IN  StationLoop(myDict, bytes, num_stations, idx + 1,
                                  Append(acc, this_station))

\* the program loop
RECURSIVE ProgramLoop(_, _, _, _)
ProgramLoop(myDict, num_programs, idx, acc) ==
    IF ~(idx < num_programs) THEN [exc |-> "none", out |-> acc]
    ELSE LET program_data == LookupItem(myDict, "programs", "pd", idx)
         IN  IF program_data.exc # "none" THEN [exc |-> program_data.exc, out |-> acc]
             ELSE IF Len(program_data.val.v) < 6 THEN [exc |-> "IndexError", out |-> acc]
             ELSE LET d == program_data.val.v
                      this_program ==
                          OpenSprinklerProgram(d[6].v, d[1].v, d[2].v, d[3].v, d[4].v, d[5].v)
                  IN  ProgramLoop(myDict, num_programs, idx + 1, Append(acc, this_program))

\* the try block of __init__: what it assigned and appended before it ended,
\* and the exception its bare except swallowed ("none" if it ran through)
TryBlock(myDict, props) ==
    LET en  == Lookup(myDict, "settings", "en")
        ir  == LookupItem(myDict, "stations", "ignore_rain", 0)
        seq == LookupItem(myDict, "stations", "stn_seq", 0)
        dis == LookupItem(myDict, "stations", "stn_dis", 0)
        spe == LookupItem(myDict, "stations", "stn_spe", 0)
        ns  == Lookup(myDict, "status", "nstations")
        out(e, en_, st, pr) ==
            [exc |-> e, controller_enabled |-> en_, stations |-> st, programs |-> pr]
    IN  IF en.exc # "none" THEN out(en.exc, FALSE, <<>>, <<>>)
        ELSE LET enabled == Truthy(en.val)
             IN  IF ir.exc # "none" THEN out(ir.exc, enabled, <<>>, <<>>)
                 ELSE IF seq.exc # "none" THEN out(seq.exc, enabled, <<>>, <<>>)
                 ELSE IF dis.exc # "none" THEN out(dis.exc, enabled, <<>>, <<>>)
                 ELSE IF spe.exc # "none" THEN out(spe.exc, enabled, <<>>, <<>>)
                 ELSE IF ns.exc # "none" THEN out(ns.exc, enabled, <<>>, <<>>)
                 ELSE LET bytes == [ir |-> ir.val, seq |-> seq.val,
                                    dis |-> dis.val, spe |-> spe.val]
                          sl == StationLoop(myDict, bytes, ns.val.v, 0, <<>>)
                          np == getProperty(props, "num_programs")
                      IN  IF sl.exc # "none" THEN out(sl.exc, enabled, sl.out, <<>>)
                          ELSE IF np.exc # "none" THEN out(np.exc, enabled, sl.out, <<>>)
                          ELSE LET pl == ProgramLoop(myDict, np.val.v, 0, <<>>)
                               IN  out(pl.exc, enabled, sl.out, pl.out)

(***************************************************************************)
(* Inputs.                                                                 *)
(***************************************************************************)
StationNames ==
    <<"S01", "S02", "S03", "S04", "S05", "S06", "S07", "S08", "S09", "S10", "S11", "S12">>

NamesUpTo(n) == [i \in 1..n |-> S(StationNames[i])]
StatusUpTo(n) == [i \in 1..n |-> I(i % 2)]

\* [flags, days0, days1, [start times], [durations], name]
ProgramData(flags, days0, days1, sTimes, durs, pname) ==
    L(<<I(flags), I(days0), I(days1), L(sTimes), L(durs), S(pname)>>)

BaseSnap ==
    [fill        |-> 100,
     en          |-> I(1),
     nstations   |-> 3,
     snames      |-> NamesUpTo(3),
     sn          |-> StatusUpTo(3),
     ignore_rain |-> <<I(5)>>,
     stn_seq     |-> <<I(2)>>,
     stn_dis     |-> <<I(4)>>,
     stn_spe     |-> <<I(3)>>,
     nprogs      |-> 1,
     pd          |-> <<ProgramData(1, 65, 0, <<360, 0>>, <<600, 0, 300>>, "Lawn")>>,
     nosec       |-> {},
     drop        |-> {}]

\* snapshots a device can send: every section the decoders read is there and
\* the arrays are as long as the counts say
WellFormedSnaps ==
    { BaseSnap,
      [BaseSnap EXCEPT !.fill = 200, !.en = I(0), !.nstations = 0, !.snames = <<>>,
                       !.sn = <<>>, !.nprogs = 0, !.pd = <<>>],
      [BaseSnap EXCEPT !.fill = 300, !.en = I(2), !.nstations = MaxStations,
                       !.snames = NamesUpTo(MaxStations), !.sn = StatusUpTo(MaxStations),
                       !.ignore_rain = <<I(255)>>, !.stn_seq = <<I(129)>>,
                       !.stn_dis = <<I(255), I(255)>>, !.stn_spe = <<I(128), I(1)>>],
      [BaseSnap EXCEPT !.fill = 400, !.en = S(""), !.nosec = {"options"}],
      [BaseSnap EXCEPT !.fill = 500, !.drop = {<<"settings", "devt">>, <<"programs", "mnp">>}] }

\* snapshots with a structural anomaly in what the try block reads
MalformedSnaps ==
    { [BaseSnap EXCEPT !.fill = 600, !.en = S("on"), !.snames = NamesUpTo(1)],
      [BaseSnap EXCEPT !.fill = 700, !.en = L(<<>>), !.sn = StatusUpTo(2)],
      [BaseSnap EXCEPT !.fill = 800, !.drop = {<<"settings", "en">>}],
      [BaseSnap EXCEPT !.fill = 900, !.en = B(TRUE), !.ignore_rain = <<>>],
      [BaseSnap EXCEPT !.fill = 1000, !.en = B(FALSE), !.nprogs = 2] }

Snapshots == WellFormedSnaps \cup MalformedSnaps

\* the snapshots the overwrite runs start from
SetSnaps ==
    { BaseSnap,
      [BaseSnap EXCEPT !.fill = 500, !.drop = {<<"settings", "devt">>, <<"programs", "mnp">>}] }

\* the answers of the device to the 'ja' query: the HTTP status and the
\* JSON document of the body
Statuses == {200, 401}
Responses == {[status |-> s, body |-> p] : s \in Statuses, p \in WellFormedSnaps}

\* the arguments of OpenSprinklerProgram(...)
BaseProgram ==
    [pname  |-> "Lawn",
     flags  |-> I(1),
     days0  |-> 65,
     days1  |-> 3,
     sTimes |-> <<360, 0>>,
     durs   |-> <<600, 0, 300>>]

FlagValues == 0..127
Days0Values == {0, 1, 5, 65, 127, 128, 193, 255}
Days1Values == {0, 3}

\* raw start times: every combination of bit 13, bit 12 and bit 11 with a
\* smallest, a middle and the largest offset (0 is the unused slot)
StartValues ==
    {b13 * 8192 + b12 * 4096 + b11 * 2048 + off :
        b13 \in {0, 1}, b12 \in {0, 1}, b11 \in {0, 1}, off \in {0, 30, 2047}}

ShortStarts == {0, 300, 8192 + 2048 + 30}

ListsUpTo(vals, n) == UNION {[1..k -> vals] : k \in 0..n}

\* the lists the setters are called with after construction
SetterLists == ListsUpTo({0, 8192 + 2048 + 30}, MaxTimes)

StartLists == {<<v>> : v \in StartValues} \cup ListsUpTo(ShortStarts, MaxTimes)

ProgramInputs ==
    {[BaseProgram EXCEPT !.flags = I(f)] : f \in FlagValues}
    \cup {[BaseProgram EXCEPT !.flags = I(f), !.days0 = d0, !.days1 = d1] :
             f \in {0, 16, 32, 64, 80}, d0 \in Days0Values, d1 \in Days1Values}
    \cup {[BaseProgram EXCEPT !.flags = I(f), !.sTimes = s] : f \in {1, 65}, s \in StartLists}
    \cup {[BaseProgram EXCEPT !.flags = S("on")], [BaseProgram EXCEPT !.durs = <<>>]}

\* names getProperty is asked for, the last one not in the table
GetNames == {"device_time", "num_programs", "port_number", "bogus"}
\* names and values setProperty is called with
SetNames == {"enabled", "bogus"}
SetValues == {I(0), S("x")}

(***************************************************************************)
(* The state machine.                                                      *)
(***************************************************************************)
NoWrites == [n \in {} |-> None]

\* no program instance yet
NoProgram == [program_name |-> "<none>"]

Init ==
    /\ ctrls = <<>>
    /\ controller_stations = <<>>
    /\ controller_programs = <<>>
    /\ program = NoProgram
    /\ ret = [op |-> "init"]

\* OpenSprinklerController(myDict).  The instance gets its own property
\* list; stations and programs are appended to the lists found through
\* self, which are the class attributes.
Construct(p) ==
    /\ Len(ctrls) < MaxCtrls
    /\ LET myDict == Snapshot(p)
           r == Resolve(myDict)
           t == TryBlock(myDict, r.props)
       IN  IF r.exc # "none"
           THEN /\ ret' = [op |-> "construct", c |-> 0, out |-> Raise(r.exc)]
                /\ UNCHANGED <<ctrls, controller_stations, controller_programs, program>>
           ELSE /\ ctrls' = Append(ctrls,
                        [snap                  |-> p,
                         controller_properties |-> r.props,
                         controller_enabled    |-> t.controller_enabled,
                         lastSet               |-> NoWrites])
                /\ controller_stations' = controller_stations \o t.stations
                /\ controller_programs' = controller_programs \o t.programs
                /\ ret' = [op |-> "construct", c |-> Len(ctrls) + 1,
                           out |-> Return(None), swallowed |-> t.exc]
                /\ UNCHANGED program

\* ctrls[c].getProperty(var_name)
GetProperty(c, var_name) ==
    /\ ret' = [op |-> "getProperty", c |-> c, name |-> var_name,
               out |-> getProperty(ctrls[c].controller_properties, var_name)]
    /\ UNCHANGED <<ctrls, controller_stations, controller_programs, program>>

\* ctrls[c].getProperties()
GetProperties(c) ==
    /\ ret' = [op |-> "getProperties", c |-> c,
               out |-> Return(L(getProperties(ctrls[c].controller_properties)))]
    /\ UNCHANGED <<ctrls, controller_stations, controller_programs, program>>

\* ctrls[c].setProperty(var_name, var_value); lastSet keeps, for the names
\* of the table, the value of the latest call (history, not program state)
SetProperty(c, var_name, var_value) ==
    /\ ctrls' = [ctrls EXCEPT
           ![c].controller_properties = setProperty(@, var_name, var_value),
           ![c].lastSet =
               IF \E i \in 1..Len(controller_properties) :
                      controller_properties[i].name = var_name
               THEN [n \in DOMAIN @ \cup {var_name} |->
                        IF n = var_name THEN var_value ELSE @[n]]
               ELSE @]
    /\ ret' = [op |-> "setProperty", c |-> c, name |-> var_name, out |-> Return(None)]
    /\ UNCHANGED <<controller_stations, controller_programs, program>>

\* OpenSprinklerProgram(pname, flags, days0, days1, sTimes, durs)
NewProgram(in) ==
    /\ program = NoProgram
    /\ LET r == ProgramInit(in.pname, in.flags, in.days0, in.days1, in.sTimes, in.durs)
       IN  /\ program' = r.self
           /\ ret' = [op |-> "newProgram", args |-> in, swallowed |-> r.exc]
    /\ UNCHANGED <<ctrls, controller_stations, controller_programs>>

\* program.setStartTimes(psttype, sTimes), called from outside __init__: an
\* exception reaches the caller
SetStartTimes(psttype, sTimes) ==
    /\ program # NoProgram
    /\ LET r == setStartTimes(program, psttype, sTimes)
       IN  /\ program' = r.self
           /\ ret' = [op |-> "setStartTimes", exc |-> r.exc]
    /\ UNCHANGED <<ctrls, controller_stations, controller_programs>>

\* program.setFixedStartTimes(sTimes)
SetFixedStartTimes(sTimes) ==
    /\ program # NoProgram
    /\ LET r == setFixedStartTimes(program, sTimes)
       IN  /\ program' = r.self
           /\ ret' = [op |-> "setFixedStartTimes", exc |-> r.exc]
    /\ UNCHANGED <<ctrls, controller_stations, controller_programs>>

\* program.setRepeatingStartTimes(sTimes)
SetRepeatingStartTimes(sTimes) ==
    /\ program # NoProgram
    /\ LET r == setRepeatingStartTimes(program, sTimes)
       IN  /\ program' = r.self
           /\ ret' = [op |-> "setRepeatingStartTimes", exc |-> r.exc]
    /\ UNCHANGED <<ctrls, controller_stations, controller_programs>>

\* program.setStartTimeType(timetype)
SetStartTimeType(timetype) ==
    /\ program # NoProgram
    /\ program' = setStartTimeType(program, timetype)
    /\ ret' = [op |-> "setStartTimeType", exc |-> "none"]
    /\ UNCHANGED <<ctrls, controller_stations, controller_programs>>

\* construction and lookups
\* OpenSprinkler.executeCommand(cmd) on the answer resp of the device.  The
\* status of the response is an int and is compared with the string '200',
\* so the first branch is taken for every status: OS_UnauthorizedException
\* is raised, the except clause logs it and the function ends without a
\* return statement.  The other branches read the undefined name result.
executeCommand(resp) ==
    LET code == I(resp.status)
    IN  IF code # S("200") THEN Return(None)
        ELSE Raise("NameError")

\* OpenSprinkler.getController() on the answer resp of the device: the
\* outcome of executeCommand, the exception the bare except swallowed, and
\* whether the constructor was reached with a dictionary.
\* OpenSprinklerController(None) raises TypeError in the resolution loop
\* (`sourceName in myDict`).
getController(resp) ==
    LET JSONDictionary == executeCommand(resp)
    IN  IF JSONDictionary.exc # "none"
        THEN [cmd |-> JSONDictionary, swallowed |-> JSONDictionary.exc, built |-> FALSE]
        ELSE IF JSONDictionary.val = None
        THEN [cmd |-> JSONDictionary, swallowed |-> "TypeError", built |-> FALSE]
        ELSE [cmd |-> JSONDictionary,
              swallowed |-> Resolve(JSONDictionary.val).exc,
              built |-> Resolve(JSONDictionary.val).exc = "none"]

\* device.getController() when the device answers resp
GetController(resp) ==
    LET g == getController(resp)
    IN  IF ~g.built
        THEN /\ ret' = [op |-> "getController", args |-> resp, cmd |-> g.cmd,
                        out |-> Return(None), swallowed |-> g.swallowed]
             /\ UNCHANGED <<ctrls, controller_stations, controller_programs, program>>
        ELSE /\ Len(ctrls) < MaxCtrls
             /\ LET myDict == g.cmd.val
                    r == Resolve(myDict)
                    t == TryBlock(myDict, r.props)
                IN  /\ ctrls' = Append(ctrls,
                             [snap                  |-> resp.body,
                              controller_properties |-> r.props,
                              controller_enabled    |-> t.controller_enabled,
                              lastSet               |-> NoWrites])
                    /\ controller_stations' = controller_stations \o t.stations
                    /\ controller_programs' = controller_programs \o t.programs
                    /\ ret' = [op |-> "getController", args |-> resp, cmd |-> g.cmd,
                               out |-> Return(I(Len(ctrls) + 1)), swallowed |-> t.exc]
                    /\ UNCHANGED program

Next ==
    \/ \E p \in Snapshots : Construct(p)
    \/ \E c \in 1..Len(ctrls), n \in GetNames : GetProperty(c, n)
    \/ \E c \in 1..Len(ctrls) : GetProperties(c)

Spec == Init /\ [][Next]_vars

\* construction followed by property overwrites and listings
NextSet ==
    \/ \E p \in SetSnaps : Construct(p)
    \/ \E c \in 1..Len(ctrls), n \in SetNames, v \in SetValues : SetProperty(c, n, v)
    \/ \E c \in 1..Len(ctrls) : GetProperties(c)

SpecSet == Init /\ [][NextSet]_vars

\* controllers obtained from the device, next to ones built directly
NextDevice ==
    \/ \E p \in WellFormedSnaps : Construct(p)
    \/ \E resp \in Responses : GetController(resp)

SpecDevice == Init /\ [][NextDevice]_vars

\* a program built on its own, then its start time setters
NextProgram ==
    \/ \E in \in ProgramInputs : NewProgram(in)
    \/ \E ty \in {"Fixed", "Repeating"}, s \in SetterLists : SetStartTimes(ty, s)
    \/ \E s \in SetterLists : SetFixedStartTimes(s)
    \/ \E s \in SetterLists : SetRepeatingStartTimes(s)
    \/ \E ty \in {"Fixed", "Repeating"} : SetStartTimeType(ty)

SpecProgram == Init /\ [][NextProgram]_vars

\* the accessors
getStations(c) == controller_stations
getPrograms(c) == controller_programs
isEnabled(c) == ctrls[c].controller_enabled

(***************************************************************************)
(* Properties.                                                             *)
(***************************************************************************)
Ctrls == 1..Len(ctrls)

\* the value listed under a name of the table
PropVal(c, n) ==
    LET props == ctrls[c].controller_properties
    IN  props[CHOOSE i \in 1..Len(props) : props[i].name = n].val

Declared(n) == \E i \in 1..Len(controller_properties) : controller_properties[i].name = n

\* C1: after any sequence of constructions on well-formed snapshots, the
\* list getStations() returns for the controller built from snapshot S has
\* exactly S.status.nstations entries, and entry i has station_id i, name
\* S.stations.snames[i] and status S.status.sn[i].
C1_StationList ==
    (\A c \in Ctrls : ctrls[c].snap \in WellFormedSnaps) =>
        \A c \in Ctrls :
            LET p == ctrls[c].snap
                st == getStations(c)
            IN  /\ Len(st) = p.nstations
                /\ \A i \in 1..Len(st) :
                       /\ st[i].station_id = i - 1
                       /\ st[i].station_name = p.snames[i]
                       /\ st[i].status = p.sn[i]

\* C2: for a well-formed snapshot S whose pd holds at least nprogs tuples,
\* getPrograms() of the controller built from S has exactly nprogs entries,
\* the k-th decoded from pd[k], in order.
C2_ProgramList ==
    (\A c \in Ctrls : ctrls[c].snap \in WellFormedSnaps) =>
        \A c \in Ctrls :
            LET p == ctrls[c].snap
                pr == getPrograms(c)
            IN  /\ Len(pr) = p.nprogs
                /\ \A k \in 1..Len(pr) : pr[k].program_name = p.pd[k].v[6].v

\* C3: when reading settings.en or decoding a station or a program raises
\* (a missing key, an array shorter than its count), construction fails and
\* no controller is returned.
C3_AllOrNothing ==
    (ret.op = "construct" /\ ret.out.exc = "none") =>
        ret.swallowed \notin {"KeyError", "IndexError", "TypeError"}

\* C4: building a controller never adds to or changes the station list, the
\* program list or the property values of a controller built before.
C4_Isolation ==
    [][Len(ctrls') > Len(ctrls) =>
         \A c \in Ctrls :
             /\ getStations(c)' = getStations(c)
             /\ getPrograms(c)' = getPrograms(c)
             /\ ctrls'[c] = ctrls[c]]_vars

\* the value the resolution contract gives entry i of the table for the
\* document myDict: the raw value when the entry is not derived and its
\* section and abbreviation are there, the declared default otherwise
ContractValue(myDict, i) ==
    LET d == controller_properties[i]
    IN  IF /\ d.source # "derived"
           /\ d.source \in DOMAIN myDict
           /\ d.abbrev \in DOMAIN myDict[d.source]
        THEN myDict[d.source][d.abbrev]
        ELSE d.val

Contract ==
    [p \in Snapshots |->
        [i \in 1..Len(controller_properties) |-> ContractValue(Snapshot(p), i)]]

\* C5: registry resolution never raises; a non-derived property whose
\* section and abbreviation are in the snapshot gets the raw value, any
\* other non-derived property keeps its default, and the five derived
\* properties keep their defaults.
C5_Resolution ==
    /\ ret.op = "construct" => ret.out.exc = "none"
    /\ \A c \in Ctrls :
           LET props == ctrls[c].controller_properties
           IN  /\ Len(props) = Len(controller_properties)
               /\ \A i \in 1..Len(props) : props[i].val = Contract[ctrls[c].snap][i]

\* C5 witness: a controller built from a snapshot without the options
\* section: firmware_version kept its default, device_time took the raw
\* value and flow_pulse_rate (derived) kept its default.
C5_Witness ==
    \E c \in Ctrls :
        /\ "options" \in ctrls[c].snap.nosec
        /\ PropVal(c, "firmware_version") = I(0)
        /\ PropVal(c, "device_time") = I(ctrls[c].snap.fill + 1)
        /\ PropVal(c, "flow_pulse_rate") = S("")

\* C6: getProperty(name) returns the value held under name for every
\* declared name and fails with the unknown-property error exactly when
\* name is not declared.
C6_GetProperty ==
    ret.op = "getProperty" =>
        IF Declared(ret.name)
        THEN ret.out = Return(PropVal(ret.c, ret.name))
        ELSE ret.out.exc = "OS_UnknownPropertyError"

\* C7: after construction and any sequence of setProperty calls, each
\* property lists the value of the latest setProperty call on its name, or
\* its resolved value if there was none; values are taken as given, no
\* other property changes, and a call with a name outside the table changes
\* nothing and adds no entry.
C7_LastWriteWins ==
    \A c \in Ctrls :
        LET props == ctrls[c].controller_properties
            w == ctrls[c].lastSet
        IN  /\ Len(props) = Len(controller_properties)
            /\ \A i \in 1..Len(props) :
                   /\ props[i].name = controller_properties[i].name
                   /\ props[i].val =
                          IF props[i].name \in DOMAIN w
                          THEN w[props[i].name]
                          ELSE Contract[ctrls[c].snap][i]

\* C7 witness: 'enabled' (resolved to the integer 1) holds the string
\* written last, and the call just made named a property outside the table.
C7_Witness ==
    /\ ret.op = "setProperty"
    /\ ret.name = "bogus"
    /\ PropVal(ret.c, "enabled") = S("x")
    /\ ctrls[ret.c].snap.en = I(1)

\* C8: getProperties() returns exactly one {name, val} pair per entry of
\* the table, in the table's order, no name twice, each with the value the
\* property holds; so two calls with no setProperty in between agree.
C8_Listing ==
    ret.op = "getProperties" =>
        LET lst == ret.out.val.v
            props == ctrls[ret.c].controller_properties
        IN  /\ ret.out.exc = "none"
            /\ Len(lst) = Len(controller_properties)
            /\ \A i \in 1..Len(lst) :
                   /\ DOMAIN lst[i] = {"name", "val"}
                   /\ lst[i].name = controller_properties[i].name
                   /\ lst[i].val = props[i].val
            /\ \A i, j \in 1..Len(lst) : lst[i].name = lst[j].name => i = j

\* C8 witness: a listing taken after 'enabled' was overwritten.
C8_Witness ==
    /\ ret.op = "getProperties"
    /\ "enabled" \in DOMAIN ctrls[ret.c].lastSet
    /\ \E i \in 1..Len(ret.out.val.v) :
           ret.out.val.v[i] = [name |-> "enabled", val |-> S("x")]

\* snapshots that carry every key the table names
Complete(p) == p.nosec = {} /\ p.drop = {}

NonDerived ==
    {i \in 1..Len(controller_properties) : controller_properties[i].source # "derived"}

NonDerivedNames == {controller_properties[i].name : i \in NonDerived}

\* C9 as stated: against a snapshot with every declared non-derived key
\* the property set has as many entries as there are non-derived
\* definitions, each with the exact source value, except 'enabled', which
\* is coerced to a boolean.
C9_RoundTripAsStated ==
    \A c \in Ctrls :
        Complete(ctrls[c].snap) =>
            LET lst == getProperties(ctrls[c].controller_properties)
                myDict == Snapshot(ctrls[c].snap)
            IN  /\ Len(lst) = Cardinality(NonDerived)
                /\ \A i \in NonDerived :
                       LET d == controller_properties[i]
                           raw == myDict[d.source][d.abbrev]
                       IN  lst[i].val = IF d.name = "enabled" THEN B(Truthy(raw)) ELSE raw

\* C9 amended: the listing has one entry per definition, derived ones
\* included; every non-derived entry holds the exact source value,
\* 'enabled' too, and the boolean is the controller's separate flag.
C9_RoundTrip ==
    \A c \in Ctrls :
        Complete(ctrls[c].snap) =>
            LET lst == getProperties(ctrls[c].controller_properties)
                myDict == Snapshot(ctrls[c].snap)
            IN  /\ Len(lst) = Len(controller_properties)
                /\ Cardinality({i \in 1..Len(lst) : lst[i].name \in NonDerivedNames})
                       = Cardinality(NonDerived)
                /\ \A i \in NonDerived :
                       LET d == controller_properties[i]
                       IN  /\ lst[i].name = d.name
                           /\ lst[i].val = myDict[d.source][d.abbrev]
                /\ isEnabled(c) = Truthy(myDict["settings"]["en"])

\* C9 witness: a controller built from a complete snapshot with en = 1:
\* the property holds the integer 1 and the flag is the boolean.
C9_Witness ==
    \E c \in Ctrls :
        /\ Complete(ctrls[c].snap)
        /\ ctrls[c].snap.en = I(1)
        /\ PropVal(c, "enabled") = I(1)
        /\ PropVal(c, "num_stations") = I(ctrls[c].snap.nstations)
        /\ isEnabled(c) = TRUE

\* bit idx of a byte: (byte >> idx) & 1
Bit(byte, idx) == (byte \div 2^idx) % 2

\* C10: every station decoded with index idx from a snapshot has each of
\* its four flags true exactly when bit idx of element 0 of the flag's own
\* mask array is set; so with mask bytes in 0..255 every flag of a station
\* with idx >= 8 is false.
C10_StationFlags ==
    [][\A k \in (Len(controller_stations) + 1)..Len(controller_stations') :
           LET st == controller_stations'[k]
               p == ctrls'[Len(ctrls')].snap
               idx == st.station_id
           IN  /\ idx \in 0..(p.nstations - 1)
               /\ Truthy(st.ignore_rain_flag) = (Bit(p.ignore_rain[1].v, idx) = 1)
               /\ Truthy(st.is_sequential_flag) = (Bit(p.stn_seq[1].v, idx) = 1)
               /\ Truthy(st.is_disabled_flag) = (Bit(p.stn_dis[1].v, idx) = 1)
               /\ Truthy(st.is_special_flag) = (Bit(p.stn_spe[1].v, idx) = 1)
               /\ idx >= 8 =>
                      /\ ~Truthy(st.ignore_rain_flag)
                      /\ ~Truthy(st.is_sequential_flag)
                      /\ ~Truthy(st.is_disabled_flag)
                      /\ ~Truthy(st.is_special_flag)]_vars

\* C10 witness: station 8 of a snapshot whose ignore_rain byte is 255 and
\* whose second stn_dis byte is 255 has every flag false, and station 2 of a
\* snapshot with masks 5, 2, 4, 3 has ignoreRain and disabled set only.
C10_Witness ==
    /\ \E c \in Ctrls : ctrls[c].snap.ignore_rain = <<I(255)>> /\ ctrls[c].snap.nstations > 8
    /\ \E k \in 1..Len(controller_stations) :
           LET st == controller_stations[k]
           IN  /\ st.station_id = 8
               /\ ~Truthy(st.ignore_rain_flag) /\ ~Truthy(st.is_sequential_flag)
               /\ ~Truthy(st.is_disabled_flag) /\ ~Truthy(st.is_special_flag)
    /\ \E k \in 1..Len(controller_stations) :
           LET st == controller_stations[k]
           IN  /\ st.station_id = 2
               /\ st.ignore_rain_flag = I(4) /\ st.is_disabled_flag = I(4)
               /\ st.is_sequential_flag = I(0) /\ st.is_special_flag = I(0)

\* the call just made built a program from numeric flags
Built == ret.op = "newProgram" /\ ret.args.flags.t = "int"

FlagSet(k) == Bit(ret.args.flags.v, k) = 1

\* C11: for every flags value in 0..127 the program has enabled = bit0,
\* useWeatherAdjustment = bit1, restriction Odd if bit2, else Even if bit3,
\* else None, scheduleType Interval if bit4 or bit5 and Weekday otherwise,
\* startTimeType Fixed if bit6 and Repeating otherwise.
C11_Flags ==
    Built =>
        /\ program.program_enabled = FlagSet(0)
        /\ program.program_use_weather_adjustment = FlagSet(1)
        /\ program.program_restriction =
               (IF FlagSet(2) THEN "Odd" ELSE IF FlagSet(3) THEN "Even" ELSE "None")
        /\ program.program_schedule_type =
               (IF FlagSet(4) \/ FlagSet(5) THEN "Interval" ELSE "Weekday")
        /\ program.program_start_time_type =
               (IF FlagSet(6) THEN "Fixed" ELSE "Repeating")

\* C11 witness: flags 64 + 8 + 4: Odd wins over Even, Weekday, Fixed.
C11_Witness ==
    /\ Built
    /\ ret.args.flags = I(76)
    /\ program.program_restriction = "Odd"
    /\ program.program_schedule_type = "Weekday"
    /\ program.program_start_time_type = "Fixed"
    /\ ~program.program_enabled

\* C12: for every program whose scheduleType is Interval the schedule has
\* interval = days1 and delay = days0.
C12_Interval ==
    (Built /\ program.program_schedule_type = "Interval") =>
        /\ Len(program.program_schedule) = 1
        /\ program.program_schedule[1].interval = ret.args.days1
        /\ program.program_schedule[1].delay = ret.args.days0

\* C13: for every Weekday program and every days0 the schedule is a list
\* of exactly 7 entries, Monday to Sunday, and the entry at position
\* dayIndex is scheduled exactly when bit dayIndex of days0 is set; bits
\* above bit 6 have no effect.
C13_Weekday ==
    (Built /\ program.program_schedule_type = "Weekday") =>
        LET days == <<"Monday", "Tuesday", "Wednesday", "Thursday",
                      "Friday", "Saturday", "Sunday">>
            sch == program.program_schedule
        IN  /\ Len(sch) = 7
            /\ \A k \in 1..7 :
                   /\ sch[k].day = days[k]
                   /\ sch[k].scheduled = (Bit(ret.args.days0 % 128, k - 1) = 1)

\* C13 witness: days0 = 128 + 64 + 1: Monday and Sunday only.
C13_Witness ==
    /\ Built
    /\ ret.args.days0 = 193
    /\ program.program_schedule_type = "Weekday"
    /\ {k \in 1..7 : program.program_schedule[k].scheduled} = {1, 7}

NonZero(x) == x # 0

\* C14: for every program and every startTimes the decoded start-times
\* list holds one element per non-zero entry, in input order, and none for
\* a zero entry.
C14_StartTimes ==
    Built => Len(getStartTimes(program)) = Len(SelectSeq(ret.args.sTimes, NonZero))

C16_Fixed ==
    (Built /\ program.program_start_time_type = "Fixed") =>
        LET a == ret.args
            rep == ProgramInit(a.pname, I(a.flags.v - 64), a.days0, a.days1,
                               a.sTimes, a.durs).self
        IN  /\ getStartTimes(program) = SelectSeq(a.sTimes, NonZero)
            /\ program.program_zone_durations = rep.program_zone_durations
            /\ program.program_schedule = rep.program_schedule

\* C17: when a step of the decode fails, construction fails and no Program
\* object is produced; a Program with some fields decoded and the others
\* left at their defaults never exists.
C17_Atomic ==
    (ret.op = "newProgram" /\ program # NoProgram) => ret.swallowed = "none"

\* C20: after construction and any calls of setStartTimes,
\* setFixedStartTimes, setRepeatingStartTimes and setStartTimeType the fixed
\* and the repeating list are never both non-empty, and the elements of
\* getStartTimes() have the form getStartTimeType() selects.  The fixed
\* list holds bare integers and the repeating list records, so the form of
\* the elements is that of the list returned.
C20_StartTimeForm ==
    program # NoProgram =>
        LET fixed == program.program_fixed_start_times
            rep == program.program_repeating_start_times
        IN  /\ ~(Len(fixed) > 0 /\ Len(rep) > 0)
            /\ Len(getStartTimes(program)) > 0 =>
                   IF getStartTimes(program) = fixed
                   THEN getStartTimeType(program) = "Fixed"
                   ELSE getStartTimeType(program) = "Repeating"

\* the snapshot p contains settings.en
HasEn(p) == "settings" \notin p.nosec /\ <<"settings", "en">> \notin p.drop

\* the values Python's truth value test takes as false
Falsy == {I(0), S(""), B(FALSE), L(<<>>), EmptyDict, None}

\* C18: for every snapshot that contains settings.en, the controller built
\* from it reports isEnabled() as the boolean true when settings.en is
\* truthy and the boolean false otherwise, whatever the other fields of the
\* snapshot are (also when the rest of the decode fails).
C18_Enabled ==
    \A c \in Ctrls :
        HasEn(ctrls[c].snap) =>
            /\ isEnabled(c) \in BOOLEAN
            /\ isEnabled(c) = (ctrls[c].snap.en \notin Falsy)

\* C18 witness: a controller built from a snapshot whose en is the string
\* "on" and whose station arrays are too short reports the boolean true,
\* next to one whose en is the empty string and reports false.
C18_Witness ==
    \E c, d \in Ctrls :
        /\ ctrls[c].snap.en = S("on") /\ ctrls[c].snap.fill = 600
        /\ isEnabled(c) = TRUE
        /\ ctrls[d].snap.en = S("") /\ HasEn(ctrls[d].snap)
        /\ isEnabled(d) = FALSE

\* C19: when the device answers the 'ja' query with HTTP status 200 and a
\* JSON snapshot without an error result code, executeCommand returns the
\* decoded JSON document and getController returns a controller built from
\* it, never None.
C19_GetController ==
    (ret.op = "getController" /\ ret.args.status = 200) =>
        /\ ret.cmd = Return(Snapshot(ret.args.body))
        /\ ret.out # Return(None)

\* C21: in every state reached by constructing a controller from a snapshot
\* that contains settings.en and then applying any sequence of setProperty
\* calls, isEnabled() equals the truthiness of the current value of the
\* 'enabled' property.
C21_EnabledDuplicate ==
    \A c \in Ctrls :
        HasEn(ctrls[c].snap) =>
            isEnabled(c) = (PropVal(c, "enabled") \notin Falsy)

====
